---- MODULE Spec2Model ----
(***************************************************************************)
(* Model of the order-matching engine of package orderbook: the Book with  *)
(* its two price trees (Node), the dispatcher loop of Start, the per-order *)
(* matcher AttemptFill with its three handlers exact, humble and greedy,   *)
(* and the in-memory account ledger InMemoryManager.Tx.                    *)
(*                                                                         *)
(* Pointers are indices into heaps: `nodes` holds the Node structs,        *)
(* `orders` the Order structs, `arrays` the backing arrays of the          *)
(* []*Order slices.  A slice is a record [arr, len]; its capacity is the   *)
(* length of its backing array; 0 is nil.  All slices of the code start at *)
(* offset 0 of their backing array.                                        *)
(***************************************************************************)
EXTENDS Integers, Sequences, FiniteSets, TLC

(* ---- bounds ---- *)
MaxOrders == 3
MaxMatches == 3
MaxErrs == 2
MaxLiveOrders == 2
MaxCallers == 2
MaxPlaced == 3
MaxInserted == 4
MaxBalance == 3
MaxV5Orders == 3
MaxListLen == 2
MaxV3Orders == 2

(* ---- input sets ---- *)
RootPrice == 10
Prices == {9, 10}
\* Open of a submitted order; Start accepts any uint64, 0 included
Opens == {0, 10, 20}
Sides == {"buy", "sell"}
\* the submitters of the package's tests: the order ID and the account of each;
\* the ledger has an account for the first two only
IDs == {"foo", "bar", "baz"}
AccountOf(id) == IF id = "foo" THEN "foo@test.com"
                 ELSE IF id = "bar" THEN "bar@test.com" ELSE "baz@test.com"
InitialBalances == [a \in {"foo@test.com", "bar@test.com"} |->
                      IF a = "foo@test.com" THEN 1 ELSE 0]
BookKinds == {"start", "built"}

\* the prices of the orders of package v5
V5Prices == {9, 10, 11}

\* the prices of package v3 (Price is a uint64; findLowest counts down to 0)
V3Prices == 0..2

\* the prices of the orders given to MatchOrders
MatchPrices == {1, 2, 3}

Cents == 100
Nil == 0
BuyRoot == 1
SellRoot == 2

VARIABLES
  nodes,     \* heap of Node structs: [Price, Orders, Left, Right]
  arrays,    \* heap of backing arrays of the Orders slices
  orders,    \* heap of Order structs, in order of submission
  pc,        \* pc[o]: position of the AttemptFill goroutine of order o
  sel,       \* sel[o]: the Match built by the goroutine of o: [Sell, kase]
  mutex,     \* Book.Mutex: 0 when free, else the order whose goroutine holds it
  balances,  \* InMemoryManager.Accounts: account id -> CurrentBalance
  matches,   \* the Match values sent on the matches channel, in order
  errs,      \* the errors sent on the errs channel, in order
  txs,       \* the calls of acc.Tx, in order: arguments and outcome
  fatal,     \* TRUE once log.Fatalf has ended the process
  mu,        \* InMemoryManager.Mutex: 0 when free, else the caller that holds it
  calls,     \* calls[c]: the call of Tx or Get that caller c of the ledger is in
  fm,        \* the market of package orders: [Orders, Mutex], with the number of
             \* orders placed so far and whether a goroutine has panicked
  cancels,   \* cancels[c]: the call of market.Cancel that caller c is in
  fills,     \* the FillResult values sent on the fills channel of Start, in order
  results,   \* results[o]: the WriteResult values sent on the Result channel of
             \* the OpWrite that carried order o, in order
  got,       \* the root of the buy tree as the last call of Node.Remove returned
             \* it (got := n.Remove(value)); BuyRoot as long as none was made
  v5,        \* the PriceNode tree of package v5: [nodes, calls, placed, pulled]
  mo,        \* a call of MatchOrders: [buyOrders, sellOrders, matches, state]
  v3         \* the orderbook of package v3 and a call of findLowest on it

\* the state of the callers of the ledger, used where the ledger is looked at
\* on its own, step by step
ledgerVars == <<mu, calls>>

\* the state of the book and its goroutines
bookVars == <<nodes, arrays, orders, pc, sel, mutex, matches, errs, txs, fatal,
              fills, results, got, v5, mo, v3>>

\* the state of the market of package orders and of the callers of its Cancel
marketVars == <<fm, cancels>>

\* what the book and its goroutines never touch: nothing is ever sent on fills
\* and Node.Remove is never called; packages v5 and v3 and MatchOrders are used
\* by none of them
aside == <<ledgerVars, marketVars, fills, got, v5, mo, v3>>

vars == <<nodes, arrays, orders, pc, sel, mutex, balances, matches, errs, txs, fatal,
          mu, calls, fm, cancels, fills, results, got, v5, mo, v3>>

(* ---- slices ---- *)
NilSlice == [arr |-> Nil, len |-> 0]

Cap(arrs, s) == IF s.arr = Nil THEN 0 ELSE Len(arrs[s.arr])

\* the elements of slice s, as a sequence
Elems(arrs, s) == [j \in 1..s.len |-> arrs[s.arr][j]]

\* capacity of the array Go allocates when appending one element to a full
\* slice of capacity c
GrowCap(c) == IF c = 0 THEN 1 ELSE 2 * c

\* as AppendOne, but the element is left out of the slice
AppendNone(arrs, s, x) == [arrays |-> arrs, slice |-> s]

\* append(s, x): in place when the capacity allows, else into a new array.
\* Result: [arrays, slice].
AppendOne(arrs, s, x) ==
  IF s.len < Cap(arrs, s)
  THEN [arrays |-> [arrs EXCEPT ![s.arr][s.len + 1] = x],
        slice  |-> [arr |-> s.arr, len |-> s.len + 1]]
  ELSE LET c == GrowCap(Cap(arrs, s))
           a == [j \in 1..c |-> IF j <= s.len THEN arrs[s.arr][j]
                                ELSE IF j = s.len + 1 THEN x ELSE Nil]
       IN [arrays |-> Append(arrs, a),
           slice  |-> [arr |-> Len(arrs) + 1, len |-> s.len + 1]]

\* append(s[:i], s[i+1:]...) with i 0-based in Go, here the 1-based position
\* k = i+1: the tail is moved one slot down inside the backing array of s.
\* Result: [arrays, slice].
CutAt(arrs, s, k) ==
  [arrays |-> [arrs EXCEPT ![s.arr] =
                 [j \in 1..Len(arrs[s.arr]) |->
                    IF j >= k /\ j < s.len THEN arrs[s.arr][j + 1]
                    ELSE arrs[s.arr][j]]],
   slice  |-> [arr |-> s.arr, len |-> s.len - 1]]

(* ---- price tree ---- *)
NewNode(price) == [Price |-> price, Orders |-> NilSlice, Left |-> Nil, Right |-> Nil]

\* &Node{}: the zero Node used as a child in the Book literal of Start
ZeroNode == [Price |-> 0, Orders |-> NilSlice, Left |-> Nil, Right |-> Nil]

RECURSIVE Find(_, _, _)
\* Node.Find: the node with the price, or Nil where the code returns a fresh
\* node that is not part of the tree (it has the price and no orders)
Find(ns, n, price) ==
  IF n = Nil THEN Nil
  ELSE IF price = ns[n].Price THEN n
  ELSE IF price < ns[n].Price THEN Find(ns, ns[n].Left, price)
  ELSE Find(ns, ns[n].Right, price)

RECURSIVE FindMin(_, _)
FindMin(ns, n) ==
  IF n = Nil THEN Nil
  ELSE IF ns[n].Left = Nil THEN n
  ELSE FindMin(ns, ns[n].Left)

RECURSIVE FindMax(_, _)
FindMax(ns, n) ==
  IF n = Nil THEN Nil
  ELSE IF ns[n].Right = Nil THEN n
  ELSE FindMax(ns, ns[n].Right)

RECURSIVE ListRightFirst(_, _, _)
\* as List, but the right subtree is listed before the node and the left one
ListRightFirst(ns, arrs, n) ==
  IF n = Nil THEN <<>>
  ELSE ListRightFirst(ns, arrs, ns[n].Right) \o Elems(arrs, ns[n].Orders)
         \o ListRightFirst(ns, arrs, ns[n].Left)

RECURSIVE List(_, _, _)
\* Node.List: in-order traversal, the orders of every node
List(ns, arrs, n) ==
  IF n = Nil THEN <<>>
  ELSE List(ns, arrs, ns[n].Left) \o Elems(arrs, ns[n].Orders) \o List(ns, arrs, ns[n].Right)

RECURSIVE Insert(_, _, _, _, _)
\* Node.Insert(order) called on node n; o is the order's index, price its
\* Price.  Result: [nodes, arrays, node] with node the value the call returns.
Insert(ns, arrs, n, o, price) ==
  IF n = Nil
  THEN LET r == AppendOne(arrs, NilSlice, o)
       IN [nodes  |-> Append(ns, [NewNode(price) EXCEPT !.Orders = r.slice]),
           arrays |-> r.arrays,
           node   |-> Len(ns) + 1]
  ELSE IF price < ns[n].Price
  THEN LET r == Insert(ns, arrs, ns[n].Left, o, price)
       IN [nodes  |-> [r.nodes EXCEPT ![n].Left = r.node],
           arrays |-> r.arrays,
           node   |-> n]
  ELSE IF price > ns[n].Price
  THEN LET r == Insert(ns, arrs, ns[n].Right, o, price)
       IN [nodes  |-> [r.nodes EXCEPT ![n].Right = r.node],
           arrays |-> r.arrays,
           node   |-> n]
  ELSE LET r == AppendOne(arrs, ns[n].Orders, o)
       IN [nodes  |-> [ns EXCEPT ![n].Orders = r.slice],
           arrays |-> r.arrays,
           node   |-> n]

\* the first position of the slice holding an order with the ID, 0 if none
FirstWithID(os, arrs, s, id) ==
  LET hits == {j \in 1..s.len : os[arrs[s.arr][j]].ID = id}
  IN IF hits = {} THEN 0 ELSE CHOOSE j \in hits : \A h \in hits : j <= h

\* Node.RemoveOrder(order) called on the root n: the order is looked up by
\* ID in the node found for its price; the shortened slice is stored in the
\* Orders field of n itself.  Result: [nodes, arrays, ok].
RemoveOrder(ns, arrs, os, n, o) ==
  LET found == Find(ns, n, os[o].Price)
      s == IF found = Nil THEN NilSlice ELSE ns[found].Orders
      k == FirstWithID(os, arrs, s, os[o].ID)
  IN IF k = 0
     THEN [nodes |-> ns, arrays |-> arrs, ok |-> FALSE]
     ELSE LET r == CutAt(arrs, s, k)
          IN [nodes  |-> [ns EXCEPT ![n].Orders = r.slice],
              arrays |-> r.arrays,
              ok     |-> TRUE]

\* the orders a tree holds: those reachable through the Orders of its nodes
InTree(ns, arrs, n) == {List(ns, arrs, n)[j] : j \in 1..Len(List(ns, arrs, n))}


(* ---- ledger ---- *)
\* InMemoryManager.Tx: [ok, balances]
Tx(bal, from, to, amount) ==
  IF from \notin DOMAIN bal THEN [ok |-> FALSE, balances |-> bal]
  ELSE IF to \notin DOMAIN bal THEN [ok |-> FALSE, balances |-> bal]
  ELSE IF bal[from] < amount THEN [ok |-> FALSE, balances |-> bal]
  ELSE LET b1 == [bal EXCEPT ![from] = @ - amount]
       IN [ok |-> TRUE, balances |-> [b1 EXCEPT ![to] = @ + amount]]

(* ---- the three handlers ---- *)
\* The handlers work on the part of the state they can change, a record
\* st = [nodes, arrays, orders, balances, matches, errs, txs, fatal],
\* and on the Match m = [Buy, Sell, Price, Quantity, Total] built by
\* AttemptFill (Buy and Sell are pointers: indices into orders).

\* Open - Filled of an order.  The operands are uint64 in the code; the
\* difference does not wrap as long as Filled <= Open.
Unfilled(os, o) == os[o].Open - os[o].Filled

\* float64((quantity * price) / 100): an integer division, then a conversion
\* that is exact for these magnitudes
Amount(quantity, price) == (quantity * price) \div Cents

TxCall(st, m, quantity, t, handler) ==
  [handler |-> handler,
   from |-> st.orders[m.Buy].AccountID, to |-> st.orders[m.Sell].AccountID,
   amount |-> Amount(quantity, st.orders[m.Sell].Price), ok |-> t.ok,
   buy |-> m.Buy, sell |-> m.Sell,
   quantity |-> quantity, price |-> st.orders[m.Sell].Price,
   before |-> st.balances, after |-> t.balances]

\* as TransferFailed, but the error is swallowed
TransferFailedSilently(st, call) ==
  [st EXCEPT !.txs = Append(@, call)]

\* the error branch shared by the handlers: errs <- fmt.Errorf("failed to transfer"); return
TransferFailed(st, call) ==
  [st EXCEPT !.errs = Append(@, "failed to transfer"), !.txs = Append(@, call)]

\* match.Buy.Filled += q; match.Sell.Filled += q; both histories get a copy of m
Commit(st, m, q, call, t) ==
  LET os1 == [st.orders EXCEPT ![m.Buy].Filled = @ + q]
      os2 == [os1 EXCEPT ![m.Sell].Filled = @ + q]
      os3 == [os2 EXCEPT ![m.Buy].History = Append(@, m)]
      os4 == [os3 EXCEPT ![m.Sell].History = Append(@, m)]
  IN [st EXCEPT !.orders = os4, !.balances = t.balances, !.txs = Append(@, call)]

\* as GreedyQuantity, but taking all that the buy order wants
GreedyQuantityWanted(os, m) == Unfilled(os, m.Buy)

\* the quantity a greedy fill moves: all that the sell order has left
GreedyQuantity(os, m) == Unfilled(os, m.Sell)

\* the quantity a humble fill moves: all that the buy order still wants
HumbleQuantity(os, m) == Unfilled(os, m.Buy)

exact(st, m) ==
  LET available == Unfilled(st.orders, m.Sell)
      wanted == Unfilled(st.orders, m.Buy)
      t == Tx(st.balances, st.orders[m.Buy].AccountID, st.orders[m.Sell].AccountID,
              Amount(available, st.orders[m.Sell].Price))
      call == TxCall(st, m, available, t, "exact")
  IN IF wanted = 0 THEN [st EXCEPT !.matches = Append(@, m)]
     ELSE IF available # wanted THEN [st EXCEPT !.fatal = TRUE]
     ELSE IF ~t.ok THEN TransferFailed(st, call)
     ELSE LET s1 == Commit(st, m, available, call, t)
              rb == RemoveOrder(s1.nodes, s1.arrays, s1.orders, BuyRoot, m.Buy)
              rs == RemoveOrder(rb.nodes, rb.arrays, s1.orders, SellRoot, m.Sell)
          IN IF ~rb.ok
             THEN [s1 EXCEPT !.errs = Append(@, "failed to remove"), !.fatal = TRUE]
             ELSE IF ~rs.ok
             THEN [s1 EXCEPT !.nodes = rb.nodes, !.arrays = rb.arrays,
                             !.errs = Append(@, "failed to remove"), !.fatal = TRUE]
             ELSE [s1 EXCEPT !.nodes = rs.nodes, !.arrays = rs.arrays,
                             !.matches = Append(@, m)]

humble(st, m) ==
  LET wanted == HumbleQuantity(st.orders, m)
      t == Tx(st.balances, st.orders[m.Buy].AccountID, st.orders[m.Sell].AccountID,
              Amount(wanted, st.orders[m.Sell].Price))
      call == TxCall(st, m, wanted, t, "humble")
  IN IF ~t.ok THEN TransferFailed(st, call)
     ELSE LET s1 == Commit(st, m, wanted, call, t)
              rb == RemoveOrder(s1.nodes, s1.arrays, s1.orders, BuyRoot, m.Buy)
          IN [s1 EXCEPT !.nodes = rb.nodes, !.arrays = rb.arrays,
                        !.errs = IF rb.ok THEN @ ELSE Append(@, "failed to remove"),
                        !.matches = Append(@, m)]

greedy(st, m) ==
  LET available == GreedyQuantity(st.orders, m)
      t == Tx(st.balances, st.orders[m.Buy].AccountID, st.orders[m.Sell].AccountID,
              Amount(available, st.orders[m.Sell].Price))
      call == TxCall(st, m, available, t, "greedy")
      m2 == [m EXCEPT !.Price = st.orders[m.Sell].Price, !.Quantity = available]
  IN IF ~t.ok THEN TransferFailed(st, call)
     ELSE LET s1 == Commit(st, m2, available, call, t)
              rs == RemoveOrder(s1.nodes, s1.arrays, s1.orders, SellRoot, m.Sell)
          IN IF ~rs.ok
             THEN [s1 EXCEPT !.errs = Append(@, "failed to remove")]
             ELSE [s1 EXCEPT !.nodes = rs.nodes, !.arrays = rs.arrays,
                             !.matches = Append(@, m2)]

(* ---- callers of the ledger ---- *)
\* goroutines calling the InMemoryManager at the same time
Callers == 1..MaxCallers

\* a caller that is in no call
Idle == [op |-> "none", pc |-> "idle"]

\* &market{Orders: []Order{}}: no order, the mutex free
EmptyMarket == [Orders |-> <<>>, Mutex |-> 0, placed |-> 0, panicked |-> FALSE]

\* a PriceNode with no order and no child, its mutex free
NewPriceNode(val) ==
  [val |-> val, orders |-> <<>>, left |-> Nil, right |-> Nil, mu |-> 0]

\* the buy tree of the Book literal of Listen: a root of val 0 with two zero
\* PriceNodes as children; no caller is in a call, nothing was inserted and
\* nothing pulled
EmptyV5 ==
  [nodes |-> <<[NewPriceNode(0) EXCEPT !.left = 2, !.right = 3],
               NewPriceNode(0), NewPriceNode(0)>>,
   calls |-> [c \in Callers |-> Idle],
   placed |-> <<>>,
   pulled |-> <<>>]

\* MatchOrders has not been called
NoCall ==
  [buyOrders |-> <<>>, sellOrders |-> <<>>, buyIndex |-> 0, sellIndex |-> 0,
   matches |-> <<>>, pc |-> "none"]

\* a map without the key
NoLevel == [ok |-> FALSE, list |-> <<>>]

\* &orderbook{buy: map[Price][]*order{}, sell: map[Price][]*order{}}: no key in
\* either map, the mutex free, findLowest not called
EmptyV3 ==
  [buy |-> [p \in V3Prices |-> NoLevel],
   sell |-> [p \in V3Prices |-> NoLevel],
   lock |-> 0,
   frames |-> <<>>,
   side |-> TRUE,
   placed |-> 0,
   ret |-> [done |-> FALSE, order |-> Nil]]

(* ---- initial state ---- *)
\* the Book literal of Start: both roots have price 0 and two zero Nodes as
\* children.  No price is below 0, so the left child stays as it is and
\* FindMin returns it, a node without orders, whatever is inserted.
StartBook ==
  << [Price |-> 0, Orders |-> NilSlice, Left |-> 3, Right |-> 4],
     [Price |-> 0, Orders |-> NilSlice, Left |-> 5, Right |-> 6],
     ZeroNode, ZeroNode, ZeroNode, ZeroNode >>

\* a Book whose trees are grown by Insert from a root at a price of its own,
\* the way the package's tests set their books and trees up
BuiltBook == << NewNode(RootPrice), NewNode(RootPrice) >>

NoMatch == [Sell |-> Nil, kase |-> "none"]

Init ==
  /\ \E kind \in BookKinds : nodes = IF kind = "start" THEN StartBook ELSE BuiltBook
  /\ arrays = <<>>
  /\ orders = <<>>
  /\ pc = <<>>
  /\ sel = <<>>
  /\ mutex = 0
  /\ balances = InitialBalances
  /\ matches = <<>>
  /\ errs = <<>>
  /\ txs = <<>>
  /\ fatal = FALSE
  /\ mu = 0
  /\ calls = [c \in Callers |-> Idle]
  /\ fm = EmptyMarket
  /\ cancels = [c \in Callers |-> Idle]
  /\ fills = <<>>
  /\ results = <<>>
  /\ got = BuyRoot
  /\ v5 = EmptyV5
  /\ mo = NoCall
  /\ v3 = EmptyV3

(* ---- the dispatcher: one iteration of the loop of Start ---- *)
\* WriteResult{Order: *o, Err: nil}: a copy of the order as it is when sent
WriteResult(order) == [Order |-> order, Err |-> Nil]

\* as Deliver, but nothing is sent on the Result channel
DeliverNothing(rs, order) == Append(rs, <<>>)

\* w.Result <- WriteResult{...}: the one send on the Result channel of the
\* OpWrite, whose order becomes the next of the orders
Deliver(rs, order) == Append(rs, <<WriteResult(order)>>)

\* as SideRoot, but every order goes to the sell tree
SideRootSell(side) == SellRoot

\* the tree Start inserts an order into: book.buy when Side == "buy", else book.sell
SideRoot(side) == IF side = "buy" THEN BuyRoot ELSE SellRoot

\* case w := <-writes: the order is inserted into the tree of its side
\* without taking the book mutex, its AttemptFill goroutine is started, and
\* the WriteResult is sent on the Result channel of the OpWrite.
\* The step can fall between any two steps of a goroutine that holds the mutex.
Write(side, price, open, id) ==
  /\ ~fatal
  /\ Len(orders) < MaxOrders
  /\ LET o == Len(orders) + 1
         r == Insert(nodes, arrays, SideRoot(side), o, price)
         order == [ID |-> id, AccountID |-> AccountOf(id), Side |-> side,
                   Price |-> price, Open |-> open, Filled |-> 0,
                   History |-> <<>>]
     IN /\ orders' = Append(orders, order)
        /\ nodes' = r.nodes
        /\ arrays' = r.arrays
        /\ results' = Deliver(results, order)
  /\ pc' = Append(pc, "lock")
  /\ sel' = Append(sel, NoMatch)
  /\ UNCHANGED <<mutex, balances, matches, errs, txs, fatal>>
  /\ UNCHANGED aside

(* ---- AttemptFill, the goroutine of order o ---- *)
\* as Lock, but without waiting for the mutex to be free
LockWithoutWaiting(o) ==
  /\ ~fatal
  /\ pc[o] = "lock"
  /\ mutex' = o
  /\ pc' = [pc EXCEPT ![o] = "select"]
  /\ UNCHANGED <<nodes, arrays, orders, sel, balances, matches, errs, txs, fatal>>
  /\ UNCHANGED <<aside, results>>

\* book.Lock()
Lock(o) ==
  /\ ~fatal
  /\ pc[o] = "lock"
  /\ mutex = 0
  /\ mutex' = o
  /\ pc' = [pc EXCEPT ![o] = "select"]
  /\ UNCHANGED <<nodes, arrays, orders, sel, balances, matches, errs, txs, fatal>>
  /\ UNCHANGED <<aside, results>>

\* which handler the switch of AttemptFill picks
Kase(wanted, available) ==
  IF wanted > available THEN "greedy"
  ELSE IF wanted < available THEN "humble"
  ELSE "exact"

\* from the top of the loop body to the switch: a buy order reads the head of
\* the node FindMin returns and picks its handler; any other order, or an
\* empty node, goes round the loop
Select(o) ==
  /\ ~fatal
  /\ pc[o] = "select"
  /\ LET low == FindMin(nodes, SellRoot)
     IN IF orders[o].Side = "buy" /\ nodes[low].Orders.len # 0
        THEN LET bookorder == arrays[nodes[low].Orders.arr][1]
             IN /\ sel' = [sel EXCEPT ![o] =
                             [Sell |-> bookorder,
                              kase |-> Kase(Unfilled(orders, o), Unfilled(orders, bookorder))]]
                /\ pc' = [pc EXCEPT ![o] = "fill"]
        ELSE /\ pc' = [pc EXCEPT ![o] = "continue"]
             /\ sel' = [sel EXCEPT ![o] = NoMatch]
  /\ UNCHANGED <<nodes, arrays, orders, mutex, balances, matches, errs, txs, fatal>>
  /\ UNCHANGED <<aside, results>>

\* the handler call of the switch
Fill(o) ==
  /\ ~fatal
  /\ pc[o] = "fill"
  /\ Len(matches) < MaxMatches
  /\ Len(errs) < MaxErrs
  /\ LET st == [nodes |-> nodes, arrays |-> arrays, orders |-> orders,
                balances |-> balances, matches |-> matches, errs |-> errs,
                txs |-> txs, fatal |-> fatal]
         m == [Buy |-> o, Sell |-> sel[o].Sell, Price |-> 0, Quantity |-> 0, Total |-> 0]
         r == IF sel[o].kase = "greedy" THEN greedy(st, m)
              ELSE IF sel[o].kase = "humble" THEN humble(st, m)
              ELSE exact(st, m)
     IN /\ nodes' = r.nodes
        /\ arrays' = r.arrays
        /\ orders' = r.orders
        /\ balances' = r.balances
        /\ matches' = r.matches
        /\ errs' = r.errs
        /\ txs' = r.txs
        /\ fatal' = r.fatal
  /\ pc' = [pc EXCEPT ![o] = IF sel[o].kase = "greedy" THEN "continue" ELSE "return"]
  /\ UNCHANGED <<sel, mutex>>
  /\ UNCHANGED <<aside, results>>

\* book.Unlock() followed by continue or return
Unlock(o) ==
  /\ ~fatal
  /\ pc[o] \in {"continue", "return"}
  /\ mutex' = 0
  /\ pc' = [pc EXCEPT ![o] = IF pc[o] = "continue" THEN "lock" ELSE "done"]
  /\ UNCHANGED <<nodes, arrays, orders, sel, balances, matches, errs, txs, fatal>>
  /\ UNCHANGED <<aside, results>>

Next ==
  \/ \E side \in Sides, price \in Prices, open \in Opens, id \in IDs :
       Write(side, price, open, id)
  \/ \E o \in DOMAIN orders : Lock(o)
  \/ \E o \in DOMAIN orders : Select(o)
  \/ \E o \in DOMAIN orders : Fill(o)
  \/ \E o \in DOMAIN orders : Unlock(o)

Spec == Init /\ [][Next]_vars

\* The runs in which at most MaxLiveOrders orders are submitted, under the
\* scheduling of the goroutines: a goroutine that can take a step takes it in
\* the end, and one that waits for the mutex gets it in the end when the mutex
\* is released again and again.  No submission is ever required.
LiveNext ==
  \/ /\ Len(orders) < MaxLiveOrders
     /\ \E side \in Sides, price \in Prices, open \in Opens, id \in IDs :
          Write(side, price, open, id)
  \/ \E o \in DOMAIN orders : Lock(o)
  \/ \E o \in DOMAIN orders : Select(o)
  \/ \E o \in DOMAIN orders : Fill(o)
  \/ \E o \in DOMAIN orders : Unlock(o)

\* A step of Fill(o), told by the guard of Fill and by where the step leaves
\* the goroutine: no other action moves pc[o] away from "fill", and Fill(o) is
\* enabled exactly when its guard holds.
FillTaken(o) ==
  /\ ~fatal
  /\ pc[o] = "fill"
  /\ Len(matches) < MaxMatches
  /\ Len(errs) < MaxErrs
  /\ \E l \in {"continue", "return"} : pc' = [pc EXCEPT ![o] = l]

LiveSpec ==
  /\ Init
  /\ [][LiveNext]_vars
  /\ \A o \in 1..MaxLiveOrders :
       /\ SF_vars(o \in DOMAIN orders /\ Lock(o))
       /\ WF_vars(o \in DOMAIN orders /\ Select(o))
       /\ WF_pc(o \in DOMAIN orders /\ FillTaken(o))
       /\ WF_vars(o \in DOMAIN orders /\ Unlock(o))


(* ---- the ledger on its own: InMemoryManager.Tx and Get, line by line ---- *)
AccountIDs == {"foo@test.com", "bar@test.com", "baz@test.com"}
Amounts == {0, 1, 2}

\* a goroutine calls Tx(from, to, amount)
CallTx(c, from, to, amount) ==
  /\ calls[c].pc = "idle"
  /\ calls' = [calls EXCEPT ![c] = [op |-> "Tx", pc |-> "lock", from |-> from, to |-> to,
                                     amount |-> amount]]
  /\ UNCHANGED <<mu, balances>>
  /\ UNCHANGED <<bookVars, marketVars>>

\* a goroutine calls Get(id)
CallGet(c, id) ==
  /\ calls[c].pc = "idle"
  /\ calls' = [calls EXCEPT ![c] = [op |-> "Get", pc |-> "lock", id |-> id]]
  /\ UNCHANGED <<mu, balances>>
  /\ UNCHANGED <<bookVars, marketVars>>

\* as Acquire, but without waiting for the mutex to be free
AcquireWithoutWaiting(c) ==
  /\ calls[c].pc = "lock"
  /\ mu' = c
  /\ calls' = [calls EXCEPT ![c] = [f \in DOMAIN @ \cup {"before"} |->
                  IF f = "pc" THEN "locked" ELSE IF f = "before" THEN balances ELSE @[f]]]
  /\ UNCHANGED balances
  /\ UNCHANGED <<bookVars, marketVars>>

\* i.Lock() at the top of Tx and of Get; `before` keeps the balances the
\* call finds
Acquire(c) ==
  /\ calls[c].pc = "lock"
  /\ mu = 0
  /\ mu' = c
  /\ calls' = [calls EXCEPT ![c] = [f \in DOMAIN @ \cup {"before"} |->
                  IF f = "pc" THEN "locked" ELSE IF f = "before" THEN balances ELSE @[f]]]
  /\ UNCHANGED balances
  /\ UNCHANGED <<bookVars, marketVars>>

\* Tx: the three checks, each returning an error
TxCheck(c) ==
  /\ calls[c].op = "Tx" /\ calls[c].pc = "locked"
  /\ LET k == calls[c]
         failed == \/ k.from \notin DOMAIN balances
                   \/ k.to \notin DOMAIN balances
                   \/ balances[k.from] < k.amount
     IN calls' = [calls EXCEPT ![c] = [f \in DOMAIN @ \cup {"ret"} |->
                    IF f = "pc" THEN (IF failed THEN "unlock" ELSE "debit")
                    ELSE IF f = "ret" THEN (IF failed THEN "error" ELSE "none")
                    ELSE @[f]]]
  /\ UNCHANGED <<mu, balances>>
  /\ UNCHANGED <<bookVars, marketVars>>

\* Tx: fromAcct.CurrentBalance = fromAcct.CurrentBalance - amount
TxDebit(c) ==
  /\ calls[c].op = "Tx" /\ calls[c].pc = "debit"
  /\ balances' = [balances EXCEPT ![calls[c].from] = @ - calls[c].amount]
  /\ calls' = [calls EXCEPT ![c].pc = "credit"]
  /\ UNCHANGED mu
  /\ UNCHANGED <<bookVars, marketVars>>

\* Tx: toAcct.CurrentBalance = toAcct.CurrentBalance + amount; return nil error
TxCredit(c) ==
  /\ calls[c].op = "Tx" /\ calls[c].pc = "credit"
  /\ balances' = [balances EXCEPT ![calls[c].to] = @ + calls[c].amount]
  /\ calls' = [calls EXCEPT ![c].pc = "unlock", ![c].ret = "ok"]
  /\ UNCHANGED mu
  /\ UNCHANGED <<bookVars, marketVars>>

\* Get: the lookup in i.Accounts; `got` is the balance of the account returned
GetRead(c) ==
  /\ calls[c].op = "Get" /\ calls[c].pc = "locked"
  /\ LET k == calls[c]
         ok == k.id \in DOMAIN balances
     IN calls' = [calls EXCEPT ![c] = [f \in DOMAIN @ \cup {"ret", "got"} |->
                    IF f = "pc" THEN "unlock"
                    ELSE IF f = "ret" THEN (IF ok THEN "ok" ELSE "error")
                    ELSE IF f = "got" THEN (IF ok THEN balances[k.id] ELSE 0)
                    ELSE @[f]]]
  /\ UNCHANGED <<mu, balances>>
  /\ UNCHANGED <<bookVars, marketVars>>

\* the deferred i.Unlock() and the return
Release(c) ==
  /\ calls[c].pc = "unlock"
  /\ mu' = 0
  /\ calls' = [calls EXCEPT ![c] = Idle]
  /\ UNCHANGED balances
  /\ UNCHANGED <<bookVars, marketVars>>

LedgerInit ==
  /\ nodes = StartBook
  /\ arrays = <<>>
  /\ orders = <<>>
  /\ pc = <<>>
  /\ sel = <<>>
  /\ mutex = 0
  /\ balances = InitialBalances
  /\ matches = <<>>
  /\ errs = <<>>
  /\ txs = <<>>
  /\ fatal = FALSE
  /\ mu = 0
  /\ calls = [c \in Callers |-> Idle]
  /\ fm = EmptyMarket
  /\ cancels = [c \in Callers |-> Idle]
  /\ fills = <<>>
  /\ results = <<>>
  /\ got = BuyRoot
  /\ v5 = EmptyV5
  /\ mo = NoCall
  /\ v3 = EmptyV3

LedgerNext ==
  \/ \E c \in Callers, from \in AccountIDs, to \in AccountIDs, amount \in Amounts :
       CallTx(c, from, to, amount)
  \/ \E c \in Callers, id \in AccountIDs : CallGet(c, id)
  \/ \E c \in Callers : Acquire(c)
  \/ \E c \in Callers : TxCheck(c)
  \/ \E c \in Callers : TxDebit(c)
  \/ \E c \in Callers : TxCredit(c)
  \/ \E c \in Callers : GetRead(c)
  \/ \E c \in Callers : Release(c)

LedgerSpec == LedgerInit /\ [][LedgerNext]_vars

\* the amount of Tx is a float64: it can be below zero
SignedAmounts == {-1, 0, 1}

\* the ledger with calls of Tx for amounts of either sign; new calls are made
\* as long as every balance is within MaxBalance of zero
SignedLedgerNext ==
  \/ /\ \A a \in DOMAIN balances : -MaxBalance <= balances[a] /\ balances[a] <= MaxBalance
     /\ \E c \in Callers, from \in AccountIDs, to \in AccountIDs, amount \in SignedAmounts :
          CallTx(c, from, to, amount)
  \/ \E c \in Callers : Acquire(c)
  \/ \E c \in Callers : TxCheck(c)
  \/ \E c \in Callers : TxDebit(c)
  \/ \E c \in Callers : TxCredit(c)
  \/ \E c \in Callers : Release(c)

SignedLedgerSpec == LedgerInit /\ [][SignedLedgerNext]_vars

(* ---- the market of package orders: Place and Cancel ---- *)
\* The book of this market is the list fm.Orders; an order is its UUID.  (The
\* markets of the tests have no OrderTrie: Insert on the nil *TreeNode builds
\* a node that is dropped.)  Fill, the goroutine Place starts, reads
\* fm.Orders and never changes it.
MarketOrderIDs == <<"abc123", "def456", "ghi789">>

\* the UUIDs in a list of orders
IDsIn(list) == {list[j] : j \in DOMAIN list}

\* remove(s, i), i counted from 1: s[i] = s[len(s)-1]; return s[:len(s)-1]
remove(list, i) == SubSeq([list EXCEPT ![i] = list[Len(list)]], 1, Len(list) - 1)

\* market.Place: under the mutex the order is appended to fm.Orders
Place ==
  /\ ~fm.panicked
  /\ fm.placed < MaxPlaced
  /\ fm.Mutex = 0
  /\ fm' = [fm EXCEPT !.Orders = Append(@, MarketOrderIDs[fm.placed + 1]),
                       !.placed = @ + 1]
  /\ UNCHANGED cancels
  /\ UNCHANGED <<bookVars, balances, ledgerVars>>

\* market.Cancel(orderID): the range loop over fm.Orders, read without the
\* mutex, up to the first order with the ID; without one, the error return
CancelScan(c, id) ==
  /\ ~fm.panicked
  /\ cancels[c].pc = "idle"
  /\ LET hits == {j \in DOMAIN fm.Orders : fm.Orders[j] = id}
     IN cancels' = [cancels EXCEPT ![c] =
          IF hits = {}
          THEN [op |-> "Cancel", pc |-> "returned", id |-> id, i |-> 0, ret |-> "error"]
          ELSE [op |-> "Cancel", pc |-> "lock", id |-> id,
                i |-> CHOOSE j \in hits : \A h \in hits : j <= h, ret |-> "none"]]
  /\ UNCHANGED fm
  /\ UNCHANGED <<bookVars, balances, ledgerVars>>

\* fm.Lock()
CancelLock(c) ==
  /\ ~fm.panicked
  /\ cancels[c].pc = "lock"
  /\ fm.Mutex = 0
  /\ fm' = [fm EXCEPT !.Mutex = c]
  /\ cancels' = [cancels EXCEPT ![c].pc = "remove"]
  /\ UNCHANGED <<bookVars, balances, ledgerVars>>

\* fm.Orders = remove(fm.Orders, i), with the index the loop found: an index
\* past the end of the list as it is now makes s[i] panic
CancelRemove(c) ==
  /\ ~fm.panicked
  /\ cancels[c].pc = "remove"
  /\ IF cancels[c].i > Len(fm.Orders)
     THEN /\ fm' = [fm EXCEPT !.panicked = TRUE]
          /\ cancels' = [cancels EXCEPT ![c].pc = "panicked"]
     ELSE /\ fm' = [fm EXCEPT !.Orders = remove(@, cancels[c].i)]
          /\ cancels' = [cancels EXCEPT ![c].pc = "unlock"]
  /\ UNCHANGED <<bookVars, balances, ledgerVars>>

\* fm.Unlock(); return nil
CancelUnlock(c) ==
  /\ ~fm.panicked
  /\ cancels[c].pc = "unlock"
  /\ fm' = [fm EXCEPT !.Mutex = 0]
  /\ cancels' = [cancels EXCEPT ![c].pc = "returned", ![c].ret = "nil"]
  /\ UNCHANGED <<bookVars, balances, ledgerVars>>

\* the caller has its result and comes back later with another call
CancelReturn(c) ==
  /\ ~fm.panicked
  /\ cancels[c].pc = "returned"
  /\ cancels' = [cancels EXCEPT ![c] = Idle]
  /\ UNCHANGED fm
  /\ UNCHANGED <<bookVars, balances, ledgerVars>>

MarketNext ==
  \/ Place
  \/ \E c \in Callers, j \in DOMAIN MarketOrderIDs : CancelScan(c, MarketOrderIDs[j])
  \/ \E c \in Callers : CancelLock(c)
  \/ \E c \in Callers : CancelRemove(c)
  \/ \E c \in Callers : CancelUnlock(c)
  \/ \E c \in Callers : CancelReturn(c)

\* from the state in which nothing has been called or placed yet
MarketSpec == LedgerInit /\ [][MarketNext]_vars

(* ---- the price tree of tree.go on its own ---- *)
\* the prices of the orders inserted, on both sides of the root's price
TreePrices == {8, 9, 10, 11, 12}

TreeIDs == {"foo", "bar"}

\* root.Insert(order) on the root of one of the two trees
TreeInsert(root, price, id) ==
  /\ Len(orders) < MaxInserted
  /\ LET o == Len(orders) + 1
         r == Insert(nodes, arrays, root, o, price)
     IN /\ orders' = Append(orders, [ID |-> id, AccountID |-> AccountOf(id),
                                     Side |-> IF root = BuyRoot THEN "buy" ELSE "sell",
                                     Price |-> price, Open |-> 0, Filled |-> 0,
                                     History |-> <<>>])
        /\ nodes' = r.nodes
        /\ arrays' = r.arrays
  /\ UNCHANGED <<pc, sel, mutex, balances, matches, errs, txs, fatal, results>>
  /\ UNCHANGED aside

\* Node.RemoveOrder(orderID) of tree.go, called on the node n that holds the
\* level: the first order with the ID is cut out of the Orders of n itself.
\* Result: [nodes, arrays, ok].
RemoveOrderByID(ns, arrs, os, n, id) ==
  LET k == FirstWithID(os, arrs, ns[n].Orders, id)
  IN IF k = 0
     THEN [nodes |-> ns, arrays |-> arrs, ok |-> FALSE]
     ELSE LET r == CutAt(arrs, ns[n].Orders, k)
          IN [nodes  |-> [ns EXCEPT ![n].Orders = r.slice],
              arrays |-> r.arrays,
              ok     |-> TRUE]

\* n.RemoveOrder(orderID) on a node of one of the trees
TreeRemoveOrder(n, id) ==
  /\ LET r == RemoveOrderByID(nodes, arrays, orders, n, id)
     IN /\ r.ok
        /\ nodes' = r.nodes
        /\ arrays' = r.arrays
  /\ UNCHANGED <<orders, pc, sel, mutex, balances, matches, errs, txs, fatal, results>>
  /\ UNCHANGED aside

\* two trees of NewNode(10) with nothing inserted
TreeInit ==
  /\ nodes = BuiltBook
  /\ arrays = <<>>
  /\ orders = <<>>
  /\ pc = <<>>
  /\ sel = <<>>
  /\ mutex = 0
  /\ balances = InitialBalances
  /\ matches = <<>>
  /\ errs = <<>>
  /\ txs = <<>>
  /\ fatal = FALSE
  /\ mu = 0
  /\ calls = [c \in Callers |-> Idle]
  /\ fm = EmptyMarket
  /\ cancels = [c \in Callers |-> Idle]
  /\ fills = <<>>
  /\ results = <<>>
  /\ got = BuyRoot
  /\ v5 = EmptyV5
  /\ mo = NoCall
  /\ v3 = EmptyV3

TreeNext ==
  \/ \E price \in TreePrices, id \in TreeIDs : TreeInsert(BuyRoot, price, id)
  \/ \E n \in DOMAIN nodes, id \in TreeIDs : TreeRemoveOrder(n, id)

TreeSpec == TreeInit /\ [][TreeNext]_vars

(* ---- the price tree of part_021: Insert and RemoveOrder on the root ---- *)
\* root.RemoveOrder(order) for an order that has been inserted, as the
\* handlers and TestNode_RemoveOrder call it
RootRemoveOrder(o) ==
  /\ LET r == RemoveOrder(nodes, arrays, orders, BuyRoot, o)
     IN /\ r.ok
        /\ nodes' = r.nodes
        /\ arrays' = r.arrays
  /\ UNCHANGED <<orders, pc, sel, mutex, balances, matches, errs, txs, fatal, results>>
  /\ UNCHANGED aside

RootRemoveNext ==
  \/ \E price \in TreePrices, id \in TreeIDs : TreeInsert(BuyRoot, price, id)
  \/ \E o \in DOMAIN orders : RootRemoveOrder(o)

RootRemoveSpec == TreeInit /\ [][RootRemoveNext]_vars

(* ---- the price tree of tree.go: Insert and Remove of a level ---- *)
RECURSIVE Remove(_, _, _)
\* Node.Remove(value) called on node n.  Result: [nodes, node] with node the
\* value the call returns.
Remove(ns, n, value) ==
  IF n = Nil THEN [nodes |-> ns, node |-> Nil]
  ELSE IF value < ns[n].Price
  THEN LET r == Remove(ns, ns[n].Left, value)
       IN [nodes |-> [r.nodes EXCEPT ![n].Left = r.node], node |-> n]
  ELSE IF value > ns[n].Price
  THEN LET r == Remove(ns, ns[n].Right, value)
       IN [nodes |-> [r.nodes EXCEPT ![n].Right = r.node], node |-> n]
  ELSE IF ns[n].Left = Nil /\ ns[n].Right = Nil THEN [nodes |-> ns, node |-> Nil]
  ELSE IF ns[n].Left = Nil THEN [nodes |-> ns, node |-> ns[n].Right]
  ELSE IF ns[n].Right = Nil THEN [nodes |-> ns, node |-> ns[n].Left]
  ELSE LET successor == FindMin(ns, ns[n].Right)
           ns1 == [ns EXCEPT ![n].Price = ns[successor].Price]
           r == Remove(ns1, ns1[n].Right, ns[successor].Price)
       IN [nodes |-> [r.nodes EXCEPT ![n].Right = r.node], node |-> n]

\* got = got.Insert(order): Insert on the root the tree has now
GotInsert(price) ==
  /\ Len(orders) < MaxInserted
  /\ LET o == Len(orders) + 1
         r == Insert(nodes, arrays, got, o, price)
     IN /\ orders' = Append(orders, [ID |-> "foo", AccountID |-> AccountOf("foo"),
                                     Side |-> "buy",
                                     Price |-> price, Open |-> 0, Filled |-> 0,
                                     History |-> <<>>])
        /\ nodes' = r.nodes
        /\ arrays' = r.arrays
        /\ got' = r.node
  /\ UNCHANGED <<pc, sel, mutex, balances, matches, errs, txs, fatal, results>>
  /\ UNCHANGED <<ledgerVars, marketVars, fills, v5, mo, v3>>

\* got = got.Remove(value) for the price of a level of the tree
GotRemove(value) ==
  /\ Find(nodes, got, value) # Nil
  /\ LET r == Remove(nodes, got, value)
     IN /\ nodes' = r.nodes
        /\ got' = r.node
  /\ UNCHANGED <<arrays, orders, pc, sel, mutex, balances, matches, errs, txs, fatal, results>>
  /\ UNCHANGED <<ledgerVars, marketVars, fills, v5, mo, v3>>

GotNext ==
  \/ \E price \in TreePrices : GotInsert(price)
  \/ \E value \in TreePrices : GotRemove(value)

GotSpec == TreeInit /\ [][GotNext]_vars

(* ---- package v5: the PriceNode tree ---- *)
\* removeV2: s[i] = s[len(s)-1]; return s[:len(s)-1]
removeV2(s, i) == SubSeq([s EXCEPT ![i] = s[Len(s)]], 1, Len(s) - 1)

\* the index of the first order of the list that has the ID, 0 if there is none
\* (for i, ord := range t.orders { if ord.ID == order.ID ... })
V5IndexOf(list, id) ==
  IF \E i \in 1..Len(list) : list[i].ID = id
  THEN CHOOSE i \in 1..Len(list) :
         /\ list[i].ID = id
         /\ \A j \in 1..(i - 1) : list[j].ID # id
  ELSE 0

\* PriceNode.Insert with no other caller in the tree: every lock it takes it
\* gives back before it goes down or returns
RECURSIVE V5InsertAll(_, _, _)
V5InsertAll(ns, t, o) ==
  IF ns[t].val = o.Price
  THEN [ns EXCEPT ![t].orders = Append(@, o)]
  ELSE IF o.Price < ns[t].val
       THEN IF ns[t].left = Nil
            THEN V5InsertAll(Append([ns EXCEPT ![t].left = Len(ns) + 1],
                                    NewPriceNode(o.Price)),
                             Len(ns) + 1, o)
            ELSE V5InsertAll(ns, ns[t].left, o)
       ELSE IF ns[t].right = Nil
            THEN V5InsertAll(Append([ns EXCEPT ![t].right = Len(ns) + 1],
                                    NewPriceNode(o.Price)),
                             Len(ns) + 1, o)
            ELSE V5InsertAll(ns, ns[t].right, o)

\* the node PriceNode.Find and PriceNode.Orders end at: the node of the price,
\* Nil if the way down ends before it
RECURSIVE V5NodeOf(_, _, _)
V5NodeOf(ns, t, price) ==
  IF t = Nil THEN Nil
  ELSE IF ns[t].val = price THEN t
  ELSE IF price > ns[t].val THEN V5NodeOf(ns, ns[t].right, price)
  ELSE V5NodeOf(ns, ns[t].left, price)

\* the nil *Order that comes with an error
NoOrder == [ID |-> 0, Price |-> 0]

\* PriceNode.Find: the first order of the level of the price; the error (no
\* node of the price, or no order in it) is NoOrder
V5Find(ns, t, price) ==
  LET n == V5NodeOf(ns, t, price)
  IN IF n = Nil THEN NoOrder
     ELSE IF Len(ns[n].orders) = 0 THEN NoOrder
     ELSE ns[n].orders[1]

\* the level of a price as the tree holds it
V5Level(ns, t, price) ==
  LET n == V5NodeOf(ns, t, price)
  IN IF n = Nil THEN <<>> ELSE ns[n].orders

\* PriceNode.RemoveByID with no other caller in the tree: the node of the
\* order's price loses the order by removeV2 and its lock is given back; when
\* no order of the node has the ID the function returns without Unlock and the
\* lock stays with the caller c
V5RemoveAll(ns, t, o, c) ==
  LET n == V5NodeOf(ns, t, o.Price)
  IN IF n = Nil THEN ns
     ELSE LET i == V5IndexOf(ns[n].orders, o.ID)
          IN IF i = 0 THEN [ns EXCEPT ![n].mu = c]
             ELSE [ns EXCEPT ![n].orders = removeV2(@, i)]

V5Free == \A n \in DOMAIN v5.nodes : v5.nodes[n].mu = 0

V5Rest ==
  UNCHANGED <<nodes, arrays, orders, pc, sel, mutex, balances, matches, errs,
              txs, fatal, mu, calls, fm, cancels, fills, results, got, mo, v3>>

\* one caller, one call at a time: t.Insert(order)
PullInsert(price) ==
  /\ V5Free
  /\ Len(v5.placed) < MaxV5Orders
  /\ LET o == [ID |-> Len(v5.placed) + 1, Price |-> price]
     IN v5' = [v5 EXCEPT !.nodes = V5InsertAll(v5.nodes, 1, o),
                         !.placed = Append(@, price)]
  /\ V5Rest

\* one caller, one call at a time: t.Pull(price), which is Find and then
\* RemoveByID of the order found; with nothing found it returns the error and
\* changes nothing
PullPull(price) ==
  /\ V5Free
  /\ LET found == V5Find(v5.nodes, 1, price)
     IN /\ found # NoOrder
        /\ v5' = [v5 EXCEPT !.nodes = V5RemoveAll(v5.nodes, 1, found, 1),
                            !.pulled = Append(@, found)]
  /\ V5Rest

PullNext ==
  \/ \E price \in V5Prices : PullInsert(price)
  \/ \E price \in V5Prices : PullPull(price)

PullSpec == LedgerInit /\ [][PullNext]_vars

(* ---- package v5: Insert and RemoveByID lock by lock ---- *)
\* caller c calls t.Insert(o) on the root with an order of a new ID
LockCallInsert(c, price) ==
  /\ v5.calls[c] = Idle
  /\ Len(v5.placed) < MaxV5Orders
  /\ v5' = [v5 EXCEPT
              !.calls[c] = [op |-> "Insert", pc |-> "lock", node |-> 1,
                            order |-> [ID |-> Len(v5.placed) + 1, Price |-> price]],
              !.placed = Append(@, price)]
  /\ V5Rest

\* caller c calls t.RemoveByID(order) on the root with an order that was given
\* to Insert before, whether it is still in the tree or not
LockCallRemove(c, id) ==
  /\ v5.calls[c] = Idle
  /\ id \in 1..Len(v5.placed)
  /\ v5' = [v5 EXCEPT
              !.calls[c] = [op |-> "RemoveByID", pc |-> "lock", node |-> 1,
                            order |-> [ID |-> id, Price |-> v5.placed[id]]]]
  /\ V5Rest

\* t.Lock() on the node the call is at: it waits until the mutex is free
LockAcquire(c) ==
  /\ v5.calls[c].pc = "lock"
  /\ v5.nodes[v5.calls[c].node].mu = 0
  /\ v5' = [v5 EXCEPT !.nodes[v5.calls[c].node].mu = c,
                      !.calls[c].pc = "locked"]
  /\ V5Rest

\* Insert with the lock of its node: append at the node of the price, else
\* make the child if there is none, Unlock and go down
InsertLocked(c) ==
  /\ v5.calls[c].pc = "locked"
  /\ v5.calls[c].op = "Insert"
  /\ LET t == v5.calls[c].node
         o == v5.calls[c].order
         new == Len(v5.nodes) + 1
     IN IF v5.nodes[t].val = o.Price
        THEN v5' = [v5 EXCEPT !.nodes[t].orders = Append(@, o),
                              !.nodes[t].mu = 0,
                              !.calls[c] = Idle]
        ELSE IF o.Price < v5.nodes[t].val
        THEN IF v5.nodes[t].left = Nil
             THEN v5' = [v5 EXCEPT
                           !.nodes = Append([v5.nodes EXCEPT ![t].left = new,
                                                             ![t].mu = 0],
                                            NewPriceNode(o.Price)),
                           !.calls[c].node = new,
                           !.calls[c].pc = "lock"]
             ELSE v5' = [v5 EXCEPT !.nodes[t].mu = 0,
                                   !.calls[c].node = v5.nodes[t].left,
                                   !.calls[c].pc = "lock"]
        ELSE IF v5.nodes[t].right = Nil
             THEN v5' = [v5 EXCEPT
                           !.nodes = Append([v5.nodes EXCEPT ![t].right = new,
                                                             ![t].mu = 0],
                                            NewPriceNode(o.Price)),
                           !.calls[c].node = new,
                           !.calls[c].pc = "lock"]
             ELSE v5' = [v5 EXCEPT !.nodes[t].mu = 0,
                                   !.calls[c].node = v5.nodes[t].right,
                                   !.calls[c].pc = "lock"]
  /\ V5Rest

\* RemoveByID with the lock of its node: at the node of the price it takes the
\* order of the ID out, Unlocks and returns it, and with no order of the ID it
\* returns the error with no Unlock; at another node it Unlocks and goes down,
\* or returns the error when there is no child that way
RemoveLocked(c) ==
  /\ v5.calls[c].pc = "locked"
  /\ v5.calls[c].op = "RemoveByID"
  /\ LET t == v5.calls[c].node
         o == v5.calls[c].order
         i == V5IndexOf(v5.nodes[t].orders, o.ID)
         child == IF o.Price > v5.nodes[t].val
                  THEN v5.nodes[t].right ELSE v5.nodes[t].left
     IN IF o.Price = v5.nodes[t].val
        THEN IF i # 0
             THEN v5' = [v5 EXCEPT !.nodes[t].orders = removeV2(@, i),
                                   !.nodes[t].mu = 0,
                                   !.calls[c] = Idle]
             ELSE v5' = [v5 EXCEPT !.calls[c] = Idle]
        ELSE IF child # Nil
             THEN v5' = [v5 EXCEPT !.nodes[t].mu = 0,
                                   !.calls[c].node = child,
                                   !.calls[c].pc = "lock"]
             ELSE v5' = [v5 EXCEPT !.nodes[t].mu = 0,
                                   !.calls[c] = Idle]
  /\ V5Rest

LockNext ==
  \/ \E c \in Callers, price \in V5Prices : LockCallInsert(c, price)
  \/ \E c \in Callers, id \in 1..MaxV5Orders : LockCallRemove(c, id)
  \/ \E c \in Callers : LockAcquire(c)
  \/ \E c \in Callers : InsertLocked(c)
  \/ \E c \in Callers : RemoveLocked(c)

LockSpec == LedgerInit /\ [][LockNext]_vars

(* ---- MatchOrders ---- *)
\* the lists given to MatchOrders; an order is its Price, the one field the
\* function reads
RECURSIVE ListsUpTo(_)
ListsUpTo(n) ==
  IF n = 0 THEN {<<>>}
  ELSE LET shorter == ListsUpTo(n - 1)
       IN shorter \cup {Append(l, p) : l \in shorter, p \in MatchPrices}

MatchLists == ListsUpTo(MaxListLen)

\* an order put into a list that is sorted by falling price, before the first
\* order of a lower price
RECURSIVE InsertDesc(_, _)
InsertDesc(l, p) ==
  IF l = <<>> THEN <<p>>
  ELSE IF p > Head(l) THEN <<p>> \o l
  ELSE <<Head(l)>> \o InsertDesc(Tail(l), p)

\* sort.Slice(l, func(i, j int) bool { return l[i].Price > l[j].Price })
RECURSIVE SortDesc(_)
SortDesc(l) ==
  IF l = <<>> THEN <<>> ELSE InsertDesc(SortDesc(Tail(l)), Head(l))

MatchRest ==
  UNCHANGED <<nodes, arrays, orders, pc, sel, mutex, balances, matches, errs,
              txs, fatal, mu, calls, fm, cancels, fills, results, got, v5, v3>>

\* the two sort.Slice calls and the declarations before the loop
MatchSort ==
  /\ mo.pc = "sort"
  /\ mo' = [mo EXCEPT !.buyOrders = SortDesc(@),
                      !.sellOrders = SortDesc(@),
                      !.buyIndex = 0,
                      !.sellIndex = 0,
                      !.matches = <<>>,
                      !.pc = "loop"]
  /\ MatchRest

\* one turn of the loop in which the buy order at buyIndex pays the price of
\* the sell order at sellIndex: the pair is appended and sellIndex goes up
MatchPair ==
  /\ mo.pc = "loop"
  /\ mo.sellIndex < Len(mo.sellOrders)
  /\ mo.buyIndex < Len(mo.buyOrders)
  /\ mo.buyOrders[mo.buyIndex + 1] >= mo.sellOrders[mo.sellIndex + 1]
  /\ mo' = [mo EXCEPT
              !.matches = Append(@, [Buy |-> mo.buyIndex, Sell |-> mo.sellIndex]),
              !.sellIndex = @ + 1,
              !.pc = IF mo.buyIndex = Len(mo.buyOrders) THEN "return" ELSE "loop"]
  /\ MatchRest

\* one turn of the loop in which it does not: buyIndex goes up, and the loop
\* is left when it has reached len(buyOrders)
MatchSkip ==
  /\ mo.pc = "loop"
  /\ mo.sellIndex < Len(mo.sellOrders)
  /\ mo.buyIndex < Len(mo.buyOrders)
  /\ mo.buyOrders[mo.buyIndex + 1] < mo.sellOrders[mo.sellIndex + 1]
  /\ mo' = [mo EXCEPT
              !.buyIndex = @ + 1,
              !.pc = IF mo.buyIndex + 1 = Len(mo.buyOrders) THEN "return" ELSE "loop"]
  /\ MatchRest

\* buyOrders[buyIndex] with buyIndex not below len(buyOrders): the runtime
\* panics with index out of range
MatchPanic ==
  /\ mo.pc = "loop"
  /\ mo.sellIndex < Len(mo.sellOrders)
  /\ mo.buyIndex >= Len(mo.buyOrders)
  /\ mo' = [mo EXCEPT !.pc = "panic"]
  /\ MatchRest

\* the loop condition fails: return matches
MatchDone ==
  /\ mo.pc = "loop"
  /\ mo.sellIndex >= Len(mo.sellOrders)
  /\ mo' = [mo EXCEPT !.pc = "return"]
  /\ MatchRest

\* MatchOrders is called with any two lists
MatchInit ==
  /\ nodes = StartBook
  /\ arrays = <<>>
  /\ orders = <<>>
  /\ pc = <<>>
  /\ sel = <<>>
  /\ mutex = 0
  /\ balances = InitialBalances
  /\ matches = <<>>
  /\ errs = <<>>
  /\ txs = <<>>
  /\ fatal = FALSE
  /\ mu = 0
  /\ calls = [c \in Callers |-> Idle]
  /\ fm = EmptyMarket
  /\ cancels = [c \in Callers |-> Idle]
  /\ fills = <<>>
  /\ results = <<>>
  /\ got = BuyRoot
  /\ v5 = EmptyV5
  /\ \E b \in MatchLists, l \in MatchLists :
       mo = [NoCall EXCEPT !.buyOrders = b, !.sellOrders = l, !.pc = "sort"]
  /\ v3 = EmptyV3

MatchNext ==
  \/ MatchSort
  \/ MatchPair
  \/ MatchSkip
  \/ MatchPanic
  \/ MatchDone

MatchSpec == MatchInit /\ [][MatchNext]_vars

(* ---- package v3: the orderbook and findLowest ---- *)
\* o.buy for the buy side (side true), o.sell for the sell side
V3Map(book, side) == IF side THEN book.buy ELSE book.sell

V3Top == v3.frames[Len(v3.frames)]

V3Rest ==
  UNCHANGED <<nodes, arrays, orders, pc, sel, mutex, balances, matches, errs,
              txs, fatal, mu, calls, fm, cancels, fills, results, got, v5, mo>>

\* the book with the level of a price of a side set
V3With(book, side, price, level) ==
  IF side THEN [book EXCEPT !.buy[price] = level]
  ELSE [book EXCEPT !.sell[price] = level]

\* push(ord), the whole of it under the book's lock: the order starts the list
\* of its price if the map has no such key, and is appended to it otherwise
V3Push(price, side) ==
  /\ v3.lock = 0
  /\ v3.placed < MaxV3Orders
  /\ LET level == V3Map(v3, side)[price]
         ord == v3.placed + 1
     IN v3' = [V3With(v3, side, price,
                      [ok |-> TRUE, list |-> Append(level.list, ord)])
                 EXCEPT !.placed = ord]
  /\ V3Rest

\* pull(order), the whole of it under the book's lock, of an order that is in
\* the list of its price: the list without it is stored under the key
V3Pull(ord, price, side) ==
  /\ v3.lock = 0
  /\ LET level == V3Map(v3, side)[price]
     IN /\ level.ok
        /\ \E idx \in 1..Len(level.list) :
             /\ level.list[idx] = ord
             /\ v3' = V3With(v3, side, price,
                             [ok |-> TRUE,
                              list |-> SubSeq(level.list, 1, idx - 1)
                                         \o SubSeq(level.list, idx + 1,
                                                   Len(level.list))])
  /\ V3Rest

\* a goroutine calls o.findLowest(price, side)
V3Call(price, side) ==
  /\ v3.frames = <<>>
  /\ v3' = [v3 EXCEPT !.frames = <<[price |-> price, pc |-> "lock"]>>,
                      !.side = side,
                      !.ret = [done |-> FALSE, order |-> Nil]]
  /\ V3Rest

\* o.Lock() at the head of findLowest, in the innermost call: it waits until
\* the mutex is free
V3Lock ==
  /\ v3.frames # <<>>
  /\ V3Top.pc = "lock"
  /\ v3.lock = 0
  /\ v3' = [v3 EXCEPT !.lock = Len(v3.frames),
                      !.frames[Len(v3.frames)].pc = "body"]
  /\ V3Rest

\* the body of findLowest with the lock: no key at the price gives the error
\* at price 0 and a call of findLowest(price - 1, side) above it; a key with an
\* empty list gives the error, and a list gives its first order
V3Body ==
  /\ v3.frames # <<>>
  /\ V3Top.pc = "body"
  /\ LET d == Len(v3.frames)
         level == V3Map(v3, v3.side)[V3Top.price]
     IN IF ~level.ok /\ V3Top.price # 0
        THEN v3' = [v3 EXCEPT
                      !.frames = Append([v3.frames EXCEPT ![d].pc = "call"],
                                        [price |-> V3Top.price - 1, pc |-> "lock"])]
        ELSE v3' = [v3 EXCEPT
                      !.frames[d].pc = "unlock",
                      !.ret = [done |-> FALSE,
                               order |-> IF level.ok /\ Len(level.list) > 0
                                         THEN level.list[1] ELSE Nil]]
  /\ V3Rest

\* the deferred o.Unlock() of the innermost call as it returns; its caller, if
\* it has one, returns what it returned
V3Unlock ==
  /\ v3.frames # <<>>
  /\ V3Top.pc = "unlock"
  /\ LET d == Len(v3.frames)
         outer == SubSeq(v3.frames, 1, d - 1)
     IN v3' = [v3 EXCEPT
                 !.lock = 0,
                 !.frames = IF d = 1 THEN <<>>
                            ELSE [outer EXCEPT ![d - 1].pc = "unlock"],
                 !.ret.done = (d = 1)]
  /\ V3Rest

V3Next ==
  \/ \E price \in V3Prices, side \in BOOLEAN : V3Push(price, side)
  \/ \E ord \in 1..MaxV3Orders, price \in V3Prices, side \in BOOLEAN :
       V3Pull(ord, price, side)
  \/ \E price \in V3Prices, side \in BOOLEAN : V3Call(price, side)
  \/ V3Lock
  \/ V3Body
  \/ V3Unlock

V3Spec == LedgerInit /\ [][V3Next]_vars

(* ---- properties ---- *)
Resting(n) == InTree(nodes, arrays, n)

Exhausted(o) == orders[o].Filled = orders[o].Open

RECURSIVE SumQuantity(_)
SumQuantity(ms) == IF ms = <<>> THEN 0 ELSE Head(ms).Quantity + SumQuantity(Tail(ms))

RECURSIVE SumFilled(_, _)
SumFilled(os, side) ==
  IF os = <<>> THEN 0
  ELSE (IF Head(os).Side = side THEN Head(os).Filled ELSE 0) + SumFilled(Tail(os), side)

\* C1: in every reachable state every order has Filled <= Open.
C1_FilledAtMostOpen == \A o \in DOMAIN orders : orders[o].Filled <= orders[o].Open

\* a greedy fill has happened: a buy order is partly filled, a sell order is
\* filled up, and the Match of the step has been emitted
C1_Witness ==
  \E m \in DOMAIN matches :
    /\ matches[m].Quantity > 0
    /\ 0 < orders[matches[m].Buy].Filled
    /\ orders[matches[m].Buy].Filled < orders[matches[m].Buy].Open
    /\ orders[matches[m].Sell].Filled = orders[matches[m].Sell].Open

\* C2: the Quantity fields of the emitted Matches add up to the total Filled
\* of the buy orders and to the total Filled of the sell orders.
C2_QuantityConserved ==
  /\ SumQuantity(matches) = SumFilled(orders, "buy")
  /\ SumQuantity(matches) = SumFilled(orders, "sell")

\* C3: every successful transfer moves exactly price * quantity from the
\* buyer's account to the seller's.
C3_AmountIsPriceTimesQuantity ==
  \A i \in DOMAIN txs :
    txs[i].ok =>
      /\ txs[i].amount = txs[i].price * txs[i].quantity
      /\ txs[i].from # txs[i].to =>
           /\ txs[i].after[txs[i].from] = txs[i].before[txs[i].from] - txs[i].price * txs[i].quantity
           /\ txs[i].after[txs[i].to] = txs[i].before[txs[i].to] + txs[i].price * txs[i].quantity

\* C4: when the Filled of an order b becomes nonzero, every order a that rests
\* in the same tree at the same price and was inserted before b already has a
\* nonzero Filled.
C4_PriceTimePriority ==
  [][\A a, b \in DOMAIN orders :
       ( /\ a < b
         /\ orders[a].Side = orders[b].Side
         /\ orders[a].Price = orders[b].Price
         /\ a \in Resting(IF orders[a].Side = "buy" THEN BuyRoot ELSE SellRoot)
         /\ b \in Resting(IF orders[b].Side = "buy" THEN BuyRoot ELSE SellRoot)
         /\ orders[b].Filled = 0
         /\ orders'[b].Filled > 0 )
       => orders[a].Filled > 0]_vars

\* C5: when a fill step is applied to a buy order, no sell order that rests
\* unexhausted in the sell tree at that moment has a lower price than the sell
\* order of the step.
C5_BestPrice ==
  [][\A o \in DOMAIN orders :
       (pc[o] = "fill" /\ Len(txs') = Len(txs) + 1 /\ txs'[Len(txs')].ok)
       => \A r \in Resting(SellRoot) :
            ~Exhausted(r) => orders[sel[o].Sell].Price <= orders[r].Price]_vars

\* C6: no transfer is made and no Match is emitted between a buy order and a
\* sell order whose price is above the buy order's price.
C6_Crossable ==
  /\ \A i \in DOMAIN txs : orders[txs[i].buy].Price >= orders[txs[i].sell].Price
  /\ \A m \in DOMAIN matches : orders[matches[m].Buy].Price >= orders[matches[m].Sell].Price

\* C7: no transfer is made and no Match is emitted between two orders that
\* carry the same ID.
C7_NoSelfMatch ==
  /\ \A i \in DOMAIN txs : orders[txs[i].buy].ID # orders[txs[i].sell].ID
  /\ \A m \in DOMAIN matches : orders[matches[m].Buy].ID # orders[matches[m].Sell].ID

C9_FailedIncomingCancelled ==
  \A i \in DOMAIN txs :
    ~txs[i].ok =>
      /\ txs[i].buy \notin Resting(BuyRoot)
      /\ pc[txs[i].buy] \in {"return", "done"}
      /\ \A j \in DOMAIN txs : j > i => txs[j].buy # txs[i].buy
      /\ txs[i].sell \in Resting(SellRoot)

\* C10: whenever the book mutex is free, neither tree holds an order that has
\* been filled up to Filled = Open.
C10_NoExhaustedInBook ==
  mutex = 0 => \A o \in Resting(BuyRoot) \cup Resting(SellRoot) :
                 ~(Exhausted(o) /\ orders[o].Filled > 0)

Blocked(o) == \A r \in Resting(SellRoot) : orders[r].Price > orders[o].Price

\* C12: when a buy order's goroutine looks for a resting order while the sell
\* tree holds no order or only orders priced above the buy order, the
\* goroutine goes to its end without calling a handler (so without a Match),
\* and the buy order stays in the buy tree.
C12_BlockedRunEnds ==
  [][\A o \in DOMAIN orders :
       (pc[o] = "select" /\ pc'[o] # "select" /\ orders[o].Side = "buy" /\ Blocked(o))
       => /\ pc'[o] = "return"
          /\ matches' = matches
          /\ o \in InTree(nodes', arrays', BuyRoot)]_vars

\* the book is the one Start builds, and exactly a sell order and then a buy
\* order at its price for its quantity have been submitted, by two account
\* holders of whom the buyer can pay
C13_Submitted ==
  /\ nodes[BuyRoot].Price = 0 /\ nodes[SellRoot].Price = 0
  /\ Len(orders) = 2
  /\ orders[1].Side = "sell" /\ orders[2].Side = "buy"
  /\ orders[1].Price = orders[2].Price
  /\ orders[1].Open = orders[2].Open /\ orders[1].Open > 0
  /\ orders[1].AccountID \in DOMAIN balances /\ orders[2].AccountID \in DOMAIN balances
  /\ orders[1].AccountID # orders[2].AccountID
  /\ InitialBalances[orders[2].AccountID] >= Amount(orders[2].Open, orders[1].Price)

C13_Filled ==
  /\ Len(matches) = 1
  /\ matches[1].Buy = 2 /\ matches[1].Sell = 1
  /\ Resting(BuyRoot) = {} /\ Resting(SellRoot) = {}

\* C13: from an empty book of Start, once SELL {p, q} and then BUY {p, q} of a
\* funded buyer are submitted and nothing else, a state follows in which
\* exactly one Match between the two has been emitted and both trees hold no
\* order.
C13_ExactFillThroughStart == C13_Submitted ~> C13_Filled

\* this step is the handler call of order o for the case kase, and its
\* transfer succeeds
FilledBy(o, kase) ==
  /\ pc[o] = "fill"
  /\ sel[o].kase = kase
  /\ Len(txs') = Len(txs) + 1
  /\ txs'[Len(txs')].ok

\* both orders of the step of o have their Filled raised by q
BothFilledBy(o, q) ==
  /\ orders'[o].Filled = orders[o].Filled + q
  /\ orders'[sel[o].Sell].Filled = orders[sel[o].Sell].Filled + q

\* the position of order o in the price level of its tree, 0 when the level
\* does not hold it
PositionOf(ns, arrs, os, n, o) ==
  LET found == Find(ns, n, os[o].Price)
  IN IF found = Nil THEN 0
     ELSE LET hits == {j \in 1..ns[found].Orders.len : arrs[ns[found].Orders.arr][j] = o}
          IN IF hits = {} THEN 0 ELSE CHOOSE j \in hits : \A h \in hits : j <= h

\* C14: an exact step whose transfer succeeds raises both orders' Filled by
\* wanted, leaves neither order in the book, emits exactly one Match and ends
\* the goroutine of the buy order.
C14_ExactStep ==
  [][\A o \in DOMAIN orders :
       FilledBy(o, "exact")
       => /\ BothFilledBy(o, Unfilled(orders, o))
          /\ o \notin InTree(nodes', arrays', BuyRoot)
          /\ sel[o].Sell \notin InTree(nodes', arrays', SellRoot)
          /\ Len(matches') = Len(matches) + 1
          /\ pc'[o] = "return"]_vars

\* C15: a humble step whose transfer succeeds raises both orders' Filled by
\* wanted, takes the buy order out of the book, leaves the sell order at its
\* position in its price level, emits exactly one Match and ends the goroutine.
C15_HumbleStep ==
  [][\A o \in DOMAIN orders :
       FilledBy(o, "humble")
       => /\ BothFilledBy(o, Unfilled(orders, o))
          /\ o \notin InTree(nodes', arrays', BuyRoot)
          /\ PositionOf(nodes', arrays', orders', SellRoot, sel[o].Sell) # 0
          /\ PositionOf(nodes', arrays', orders', SellRoot, sel[o].Sell)
               = PositionOf(nodes, arrays, orders, SellRoot, sel[o].Sell)
          /\ Len(matches') = Len(matches) + 1
          /\ pc'[o] = "return"]_vars

\* C16: a greedy step whose transfer succeeds raises both orders' Filled by
\* available, takes the sell order out of the book, leaves the buy order in
\* the book, emits exactly one Match and sends the goroutine round its loop.
C16_GreedyStep ==
  [][\A o \in DOMAIN orders :
       FilledBy(o, "greedy")
       => /\ BothFilledBy(o, Unfilled(orders, sel[o].Sell))
          /\ sel[o].Sell \notin InTree(nodes', arrays', SellRoot)
          /\ o \in InTree(nodes', arrays', BuyRoot)
          /\ Len(matches') = Len(matches) + 1
          /\ pc'[o] = "continue"]_vars

\* C17: a buy order whose Open - Filled is 0 when its goroutine starts an
\* iteration ends the goroutine there: the steps of that iteration make no
\* call of Tx, change no Filled and emit no Match.
C17_NothingWantedEnds ==
  [][\A o \in DOMAIN orders :
       ( /\ orders[o].Side = "buy"
         /\ Unfilled(orders, o) = 0
         /\ pc[o] \in {"select", "fill"}
         /\ pc'[o] # pc[o] )
       => /\ pc'[o] = "return"
          /\ txs' = txs
          /\ matches' = matches
          /\ \A p \in DOMAIN orders : orders'[p].Filled = orders[p].Filled]_vars

\* C18: every step that emits a Match emits one whose Price is the sell
\* order's price, whose Quantity is the amount by which the step raised the
\* Filled of both orders, and whose Total is Price * Quantity.
C18_MatchRecord ==
  [][Len(matches') = Len(matches) + 1
     => LET m == matches'[Len(matches')]
        IN /\ m.Price = orders[m.Sell].Price
           /\ m.Quantity = orders'[m.Buy].Filled - orders[m.Buy].Filled
           /\ m.Quantity = orders'[m.Sell].Filled - orders[m.Sell].Filled
           /\ m.Total = m.Price * m.Quantity]_vars

\* C19: every step that changes a tree is a step of the task that holds the
\* book mutex at that moment.
C19_TreeChangedUnderMutex ==
  [][(nodes' # nodes \/ arrays' # arrays)
     => /\ mutex # 0
        /\ pc'[mutex] # pc[mutex]]_vars

\* C20: from the selection of the sell order to the end of the handler the
\* goroutine of the buy order holds the book mutex, before and after every
\* step; meanwhile every other goroutine stays where it is, waiting for the
\* mutex or ended, and no step of another goroutine changes a tree.
C20_MutexHeldAcrossFill ==
  [][\A o \in DOMAIN orders :
       pc[o] \in {"select", "fill"}
       => /\ mutex = o /\ mutex' = o
          /\ \A p \in DOMAIN orders \ {o} : pc[p] \in {"lock", "done"} /\ pc'[p] = pc[p]
          /\ (nodes' # nodes \/ arrays' # arrays)
               => (pc'[o] # pc[o] \/ Len(orders') > Len(orders))]_vars

\* a handler has made its transfer, raised Filled and ended while its
\* goroutine holds the mutex and the goroutine of another buy order waits
C20_Witness ==
  \E o, p \in DOMAIN orders :
    /\ o # p
    /\ pc[o] = "return" /\ mutex = o
    /\ orders[o].Filled > 0
    /\ txs # <<>> /\ txs[Len(txs)].ok /\ txs[Len(txs)].buy = o
    /\ orders[p].Side = "buy" /\ pc[p] = "lock"

\* two sell orders rest, the first at the lower price, and a buy order that
\* wants more than the first and less than both offers comes in; the buyer can
\* pay and is neither seller
C21_Submitted ==
  /\ Len(orders) = 3
  /\ orders[1].Side = "sell" /\ orders[2].Side = "sell" /\ orders[3].Side = "buy"
  /\ orders[1].Price < orders[2].Price /\ orders[2].Price <= orders[3].Price
  /\ 0 < orders[1].Open /\ orders[1].Open < orders[3].Open
  /\ orders[3].Open < orders[1].Open + orders[2].Open
  /\ \A o \in 1..3 : orders[o].AccountID \in DOMAIN balances
  /\ orders[3].AccountID \notin {orders[1].AccountID, orders[2].AccountID}

\* C21: for the buy order of that submission the Matches come out in the order
\* of its fill steps: first the lower-priced sell order with all it offers,
\* then the other sell order with the rest the buy order wants; and when the
\* goroutine of the buy order has ended both Matches have been emitted.
C21_MatchesInStepOrder ==
  C21_Submitted
  => /\ Len(matches) <= 2
     /\ \A i \in DOMAIN matches :
          /\ matches[i].Buy = 3 /\ matches[i].Sell = i
          /\ matches[i].Price = orders[i].Price
          /\ matches[i].Quantity = IF i = 1 THEN orders[1].Open
                                   ELSE orders[3].Open - orders[1].Open
     /\ pc[3] = "done" => Len(matches) = 2 /\ orders[2].Filled = orders[3].Open - orders[1].Open

\* the balances b after amount has gone from the account from to the account to
Moved(b, from, to, amount) ==
  LET b1 == [b EXCEPT ![from] = @ - amount]
  IN [b1 EXCEPT ![to] = @ + amount]

\* the positions of a call in which it is inside Tx or Get, past i.Lock()
Inside == {"locked", "debit", "credit", "unlock"}

C23_CancelAbsentIsNoOp ==
  [][\A c \in Callers, j \in DOMAIN MarketOrderIDs :
       ( /\ cancels[c].pc = "idle"
         /\ cancels'[c].pc # "idle"
         /\ cancels'[c].id = MarketOrderIDs[j]
         /\ MarketOrderIDs[j] \notin IDsIn(fm.Orders) )
       => /\ fm'.Orders = fm.Orders
          /\ cancels'[c].pc = "returned"
          /\ cancels'[c].ret = "nil"]_vars

\* C24: the removal step of a call of Cancel for an ID takes the order with
\* that ID out of the book and no other: every other order of the book is in
\* it afterwards; and a call for an ID the book does not hold changes nothing.
C24_CancelRemovesExactlyThat ==
  [][\A c \in Callers :
       /\ (cancels[c].pc = "remove" /\ cancels'[c].pc # "remove")
          => /\ ~fm'.panicked
             /\ IDsIn(fm'.Orders) = IDsIn(fm.Orders) \ {cancels[c].id}
       /\ (cancels[c].pc = "idle" /\ cancels'[c].pc = "returned")
          => fm'.Orders = fm.Orders]_vars

\* C25: a submission with Open not above 0, or with a side other than buy and
\* sell, is turned away by Start without a change of state: every step that
\* takes a submission into the orders and a tree takes one with Open above 0
\* and a known side.
C25_InvalidSubmissionRejected ==
  [][Len(orders') = Len(orders) + 1
     => /\ orders'[Len(orders')].Open > 0
        /\ orders'[Len(orders')].Side \in {"buy", "sell"}]_vars

\* the goroutine of order o has filled it up to its Open and is on its way out
C26_Filled(o) ==
  /\ o \in DOMAIN orders
  /\ orders[o].Filled > 0
  /\ Unfilled(orders, o) = 0
  /\ pc[o] \in {"return", "done"}

\* a FillResult that names order o has been sent on the fills channel
C26_Emitted(o) == \E i \in DOMAIN fills : o \in {fills[i].Buy, fills[i].Sell}

\* C26: whenever the unfilled quantity of a submitted order has come down to
\* zero in the hands of its matcher, a FillResult for that order is eventually
\* sent on the fills channel.
C26_FillEventuallyEmitted ==
  \A o \in 1..MaxLiveOrders : C26_Filled(o) ~> C26_Emitted(o)

\* C27: every OpWrite taken in by Start has had exactly one WriteResult sent on
\* its Result channel, with a nil error, whatever the sides of the submissions
\* and however the steps of their goroutines fall between them.
C27_OneNilResultPerWrite ==
  /\ DOMAIN results = DOMAIN orders
  /\ \A o \in DOMAIN orders :
       /\ Len(results[o]) = 1
       /\ results[o][1].Err = Nil

\* three submissions of both sides are answered while a goroutine of an
\* earlier one holds the book mutex
C27_Witness ==
  /\ nodes[BuyRoot].Price = 0
  /\ Len(orders) = MaxOrders
  /\ {orders[o].Side : o \in DOMAIN orders} = {"buy", "sell"}
  /\ mutex # 0
  /\ \A o \in DOMAIN orders : Len(results[o]) = 1

\* the bids a sell order o could be filled against: they rest unexhausted in
\* the buy tree at a price not below the price of o
CrossableBids(o) ==
  {b \in Resting(BuyRoot) : ~Exhausted(b) /\ orders[b].Price >= orders[o].Price}

\* the earliest submitted of the bids of the highest price
BestBid(o) ==
  CHOOSE b \in CrossableBids(o) :
    \A c \in CrossableBids(o) :
      \/ orders[b].Price > orders[c].Price
      \/ orders[b].Price = orders[c].Price /\ b <= c

\* C28: when the goroutine of a sell order looks at the book while a crossable
\* bid rests, it goes on to a fill step against the first order of the
\* highest-priced bid level (sel[o].Sell is the book order of the step).
C28_SellTakesHighestBid ==
  [][\A o \in DOMAIN orders :
       ( /\ orders[o].Side = "sell"
         /\ ~Exhausted(o)
         /\ pc[o] = "select" /\ pc'[o] # "select"
         /\ CrossableBids(o) # {} )
       => /\ pc'[o] = "fill"
          /\ sel'[o].Sell = BestBid(o)]_vars

\* what a consumer reads through the i-th emitted Match: its own fields and,
\* through its Buy and Sell pointers, the Filled of the two orders
Observed(ms, os, i) ==
  [Price |-> ms[i].Price, Quantity |-> ms[i].Quantity, Total |-> ms[i].Total,
   Buy |-> ms[i].Buy, BuyFilled |-> os[ms[i].Buy].Filled,
   Sell |-> ms[i].Sell, SellFilled |-> os[ms[i].Sell].Filled]

\* C29: what is read through a Match that has been emitted, the Filled of its
\* buy and sell orders included, is not changed by any later step.
C29_EmittedMatchImmutable ==
  [][\A i \in DOMAIN matches :
       Observed(matches', orders', i) = Observed(matches, orders, i)]_vars

\* the FIFO list of the level of a price in the tree under n, empty when the
\* tree has no such level
Level(ns, arrs, n, price) ==
  LET found == Find(ns, n, price)
  IN IF found = Nil THEN <<>> ELSE Elems(arrs, ns[found].Orders)

\* every price an order or a root of the model can have
AllPrices == TreePrices \cup Prices \cup {RootPrice, 0}

HeldPrices(n) == {p \in AllPrices : Level(nodes, arrays, n, p) # <<>>}

\* C31: FindMin and FindMax return the level of the lowest and of the highest
\* price among the levels that hold an order, passing over levels without
\* orders; they return a node without orders only when the tree holds none.
C31_FindMinMaxSkipEmpty ==
  LET lo == FindMin(nodes, BuyRoot)
      hi == FindMax(nodes, BuyRoot)
  IN IF HeldPrices(BuyRoot) = {}
     THEN nodes[lo].Orders.len = 0 /\ nodes[hi].Orders.len = 0
     ELSE /\ nodes[lo].Orders.len > 0
          /\ nodes[hi].Orders.len > 0
          /\ \A p \in HeldPrices(BuyRoot) : nodes[lo].Price <= p /\ p <= nodes[hi].Price

\* a sequence without the element x
Without(seq, x) == SelectSeq(seq, LAMBDA y : y # x)

\* order o is in the level of its price, as the first order with its ID
PresentInLevel(o) ==
  LET found == Find(nodes, BuyRoot, orders[o].Price)
  IN /\ found # Nil
     /\ FirstWithID(orders, arrays, nodes[found].Orders, orders[o].ID) # 0
     /\ arrays[nodes[found].Orders.arr]
           [FirstWithID(orders, arrays, nodes[found].Orders, orders[o].ID)] = o

\* C32: for an order that is in a level of the tree, the root's or another,
\* RemoveOrder returns true and leaves every level with the orders it held, in
\* their order, except that this order is gone from its level.
C32_RemoveOrderRemovesExactlyThat ==
  \A o \in DOMAIN orders :
    PresentInLevel(o)
    => LET r == RemoveOrder(nodes, arrays, orders, BuyRoot, o)
       IN /\ r.ok
          /\ \A p \in AllPrices :
               Level(r.nodes, r.arrays, BuyRoot, p)
                 = Without(Level(nodes, arrays, BuyRoot, p), o)

RECURSIVE ConcatLevels(_)
\* the lists of the levels of the given prices, one after the other from the
\* lowest price up
ConcatLevels(P) ==
  IF P = {} THEN <<>>
  ELSE LET m == CHOOSE x \in P : \A y \in P : x <= y
       IN Level(nodes, arrays, BuyRoot, m) \o ConcatLevels(P \ {m})

RECURSIVE IsSearchTree(_, _, _, _)
\* the tree under n is a binary search tree with every price between lo and hi
IsSearchTree(ns, n, lo, hi) ==
  \/ n = Nil
  \/ /\ lo < ns[n].Price /\ ns[n].Price < hi
     /\ IsSearchTree(ns, ns[n].Left, lo, ns[n].Price)
     /\ IsSearchTree(ns, ns[n].Right, ns[n].Price, hi)

\* C34: Remove(value) gives a binary search tree on price that has no level of
\* price value and in which every other price has the level it had, with the
\* orders it held, whether the removed node has no child, one or two.
C34_RemoveOnlyThatLevel ==
  \A value \in TreePrices :
    LET r == Remove(nodes, got, value)
    IN /\ IsSearchTree(r.nodes, r.node, -1, 100)
       /\ Find(r.nodes, r.node, value) = Nil
       /\ \A p \in AllPrices \ {value} :
            /\ (Find(nodes, got, p) = Nil) = (Find(r.nodes, r.node, p) = Nil)
            /\ Level(r.nodes, arrays, r.node, p) = Level(nodes, arrays, got, p)

\* C37: with the balances not below zero at the start, no calls of Tx, whatever
\* their arguments and however they interleave, bring a balance below zero.
C37_NoNegativeBalance ==
  \A a \in DOMAIN balances : balances[a] >= 0

\* C38: a goroutine that has taken the book mutex and gone through exact,
\* humble or greedy is still running when it comes out, so that its Unlock
\* follows and the goroutines waiting for the mutex get it: no path through a
\* handler ends with the mutex held for good.
C38_MutexReleasedAfterHandler ==
  \A o \in DOMAIN orders :
    (mutex = o /\ pc[o] \in {"continue", "return"}) => ~fatal

\* C35: a call of Pull that returns an order returns the one that was
\* inserted first among the orders its level holds, and takes that one and no
\* other out of the level; so successive calls at one price give the orders in
\* the order they were inserted.
C35_PullInInsertionOrder ==
  [][Len(v5'.pulled) = Len(v5.pulled) + 1 =>
       LET pulledOrder == v5'.pulled[Len(v5'.pulled)]
           before == V5Level(v5.nodes, 1, pulledOrder.Price)
           after == V5Level(v5'.nodes, 1, pulledOrder.Price)
       IN /\ \A i \in 1..Len(before) : pulledOrder.ID <= before[i].ID
          /\ {after[i] : i \in 1..Len(after)}
               = {before[i] : i \in 1..Len(before)} \ {pulledOrder}]_vars

\* C39: every node lock that is held is held by a call that is under way at
\* that node: a call of RemoveByID that has returned has given back every lock
\* it took, so that no later Insert or RemoveByID waits for a lock nobody will
\* release.
C39_RemoveByIDReleasesLocks ==
  \A n \in DOMAIN v5.nodes :
    v5.nodes[n].mu # 0 =>
      /\ v5.calls[v5.nodes[n].mu].pc = "locked"
      /\ v5.calls[v5.nodes[n].mu].node = n

\* C36: whatever the two lists, an empty buy list with a sell list that is not
\* empty included, MatchOrders does not index buyOrders at or beyond its
\* length: it does not panic.
C36_MatchOrdersInBounds ==
  mo.pc # "panic"

\* C40: a call of findLowest is never left waiting for the book's lock while
\* a call of findLowest below it on the same stack holds that lock, which it
\* gives back only when the waiting call has returned: every call can still
\* go on to its return, whatever the price and the book.
C40_FindLowestTerminates ==
  ~(/\ v3.frames # <<>>
    /\ V3Top.pc = "lock"
    /\ v3.lock # 0)

====
